---- MODULE Spec2Model ----
(***************************************************************************)
(* Deployment job tracker and real-time hub of the Cloud Deployment        *)
(* Dashboard: DeploymentService (src/app/services/deployment_service.py)   *)
(* and the request handlers that call it (src/app/routes.py).              *)
(*                                                                         *)
(* The job store is the directory logs/deployments with one JSON file per  *)
(* job id.  Request handlers run on concurrent threads (SocketIO is        *)
(* created with async_mode='threading'), so every access to a file is one  *)
(* atomic step of a thread and the local computation between two accesses  *)
(* is folded into the step that precedes it.  Spec runs the handlers on    *)
(* MaxWorkers threads; SpecAppend runs MaxCallers concurrent calls of      *)
(* _log_deployment_step.                                                   *)
(*                                                                         *)
(* A storage fault is an open() that raises OSError before the file is     *)
(* touched: the operation fails and the directory is left as it was.       *)
(*                                                                         *)
(* uuid.uuid4() is a random draw.  deploy() keeps its first 8 hex digits,  *)
(* and nothing in the code compares the draw with the ids already in use,  *)
(* so the draw is a free choice in JobIds.                                 *)
(*                                                                         *)
(* RealtimeService (src/app/services/realtime_service.py) is the hub that  *)
(* pushes events to the Socket.IO sessions.  SpecHub runs its event        *)
(* handlers, the three loop threads of each start_monitoring and its       *)
(* emitters; it starts where app.py leaves the service, with monitoring    *)
(* started once.  The variable sent holds what the last step handed to the *)
(* transport, so that who receives an event is a property of a state.      *)
(***************************************************************************)
EXTENDS Integers, Sequences, FiniteSets, TLC

\* ------------------------------------------------------------------ bounds
MaxWorkers == 1      \* request threads in flight at once
MaxCalls == 3        \* calls started in one behaviour
MaxFaults == 1       \* storage faults injected in one behaviour
MaxClock == 1        \* readings of datetime.now() range over 0..MaxClock
MaxCallers == 3      \* concurrent callers of _log_deployment_step (SpecAppend)
MaxLimit == 4        \* get_deployment_history is called with limit in 0..MaxLimit
MaxConns == 2        \* connections clients open in one behaviour
MaxStarts == 2       \* times start_monitoring creates its threads (startup included)
MaxStarters == 2     \* event-handler threads inside start_monitoring at once
MaxEvents == 3       \* client events and hub calls in one behaviour

Workers == 1..MaxWorkers
Callers == 1..MaxCallers

\* ------------------------------------------------------------ input values
\* Values str(uuid.uuid4())[:8] can take.
JobIds == {"1f3a9c0e", "7be2d4a1"}

\* Keys of the table hard-coded in get_deployment_details.
DetailIds == {"abc123", "def456"}

\* Job ids a request can name in its URL.
ReqIds == JobIds \cup DetailIds

ValidActions == {"build", "run", "restart"}

\* JSON bodies posted to /api/deploy (a key that is absent takes the
\* handler's default).
Requests ==
    { [action |-> "build", image |-> "my-app:latest",
       environment |-> "production", port_mapping |-> "8080:80",
       env_vars |-> {}],
      [action |-> "explode"],
      [action |-> "restart", image |-> "nginx:latest"] }

ErrIO == "[Errno 24] Too many open files"
ErrKey == "'logs'"
ErrNotFound == "Deployment not found"

\* -------------------------------------------------------------------- state
VARIABLES
    files,     \* logs/deployments: job id -> contents of <job id>.json
    clock,     \* datetime.now()
    wk,        \* per thread: position in its call and the call's locals
    calls,     \* calls started so far
    faults,    \* storage faults injected so far
    issued,    \* history: job ids handed back by earlier /api/deploy calls
    \* RealtimeService (src/app/services/realtime_service.py)
    active_connections, \* self.active_connections: set of session ids
    conn,               \* per session id: where its connection stands
    rooms,              \* Socket.IO rooms logs_<job id>: job id -> members
    is_running,         \* self.is_running
    loops,              \* the threads start_monitoring has created
    gen,                \* how many times start_monitoring created threads
    streams,            \* job ids with a streaming_threads['logs_<id>'] entry
    st,                 \* per event-handler thread: position in start_monitoring
    hcalls,             \* client events and hub calls started so far
    sent,               \* the messages the last step handed to the transport
    subscribed,         \* history: sessions that have joined a room
    ev                  \* the client event or call the last step handled

tracker == <<files, clock, wk, calls, faults, issued>>

hub == <<active_connections, conn, rooms, is_running, loops, gen, streams,
         st, hcalls, sent, subscribed, ev>>

vars == <<files, clock, wk, calls, faults, issued,
          active_connections, conn, rooms, is_running, loops, gen, streams,
          st, hcalls, sent, subscribed, ev>>

\* ------------------------------------------------------------------ helpers
\* dict.get(key, default)
Get(d, key, default) == IF key \in DOMAIN d THEN d[key] ELSE default

NoArgs ==
    [action |-> "", image_name |-> "", environment |-> "",
     port_mapping |-> "", env_vars |-> {}]

NoResp ==
    [outcome |-> "none", code |-> 0, job_id |-> "", status |-> "",
     progress |-> 0, message |-> "", logs |-> <<>>, history |-> <<>>]

\* A thread that is in no call.
Idle ==
    [pc |-> "idle", op |-> "none", target |-> "", rid |-> "",
     args |-> NoArgs, job_id |-> "", deployment_log |-> <<>>, rec |-> <<>>,
     k |-> 0, ctx |-> "none", msg |-> <<"", "">>, err |-> "",
     started |-> FALSE, existed |-> FALSE, limit |-> <<>>, resp |-> NoResp]

\* _save_deployment_log: open(log_file, 'w') and json.dump; the file is
\* created or replaced whole.
SaveDeploymentLog(fs, job_id, deployment_log) ==
    [i \in DOMAIN fs \cup {job_id} |->
        IF i = job_id THEN deployment_log ELSE fs[i]]

\* _get_deployment_log: the stored dict, or {} when there is no file.
\* A dict is a sequence of length 0 ({}) or 1 (the record).
GetDeploymentLog(fs, job_id) ==
    IF job_id \in DOMAIN fs THEN <<fs[job_id]>> ELSE <<>>

\* The record deploy() builds before it runs the action.
InitialLog(job_id, a, now) ==
    [job_id |-> job_id, action |-> a.action, image_name |-> a.image_name,
     environment |-> a.environment, port_mapping |-> a.port_mapping,
     env_vars |-> a.env_vars, start_time |-> now, status |-> "running",
     logs |-> <<>>, progress |-> 0, error |-> <<>>, end_time |-> <<>>]

\* The three messages each action logs, in order.
StepMessages(action, image_name) ==
    CASE action = "build" ->
           << <<"Starting Docker build...", "">>,
              <<"Building image: ", image_name>>,
              <<"Build completed successfully", "">> >>
      [] action = "run" ->
           << <<"Starting container...", "">>,
              <<"Running container from image: ", image_name>>,
              <<"Container started successfully", "">> >>
      [] action = "restart" ->
           << <<"Stopping existing container...", "">>,
              <<"Starting new container...", "">>,
              <<"Container restarted with image: ", image_name>> >>
      [] OTHER -> <<>>

\* The message the action's except clause logs.
FailMessage(action, e) ==
    CASE action = "build" -> <<"Build failed: ", e>>
      [] action = "run" -> <<"Container run failed: ", e>>
      [] OTHER -> <<"Container restart failed: ", e>>

\* str(ValueError(f"Unknown action: {action}"))
UnknownAction(action) ==
    IF action = "explode" THEN "Unknown action: explode" ELSE "Unknown action"

\* -------------------------------------------------- how a call ends
\* The call of thread record l ends normally: deploy() has returned job_id.
\* The /api/deploy and rerun handlers drop deploy()'s result and answer with
\* the id they drew themselves (routes.py lines 67/87 and 281/294).
Returned(l) ==
    [l EXCEPT
       !.pc = "done",
       !.resp =
          CASE l.op = "deploy" ->
                 [NoResp EXCEPT !.outcome = "ok", !.code = 200,
                                !.job_id = l.rid, !.status = "running",
                                !.progress = 10,
                                !.message = "Deployment started successfully"]
            [] l.op = "rerun" ->
                 [NoResp EXCEPT !.outcome = "ok", !.code = 200,
                                !.job_id = l.rid,
                                !.message = "Deployment rerun started successfully"]
            [] OTHER ->
                 [NoResp EXCEPT !.outcome = "ok", !.job_id = l.job_id]]

\* The call of thread record l ends with exception e: a handler answers 500
\* with str(e); a direct caller of the service sees the exception.
Raised(l, e) ==
    [l EXCEPT
       !.pc = "done",
       !.resp =
          [NoResp EXCEPT
             !.outcome = IF e = ErrNotFound THEN "not_found" ELSE "error",
             !.code = IF l.op \in {"deploy", "rerun", "status", "logs",
                                   "deployments"}
                      THEN 500 ELSE 0,
             !.message = e]]

\* Entry into _log_deployment_step(job_id, m) from context c.
CallLogStep(l, c, m) == [l EXCEPT !.pc = "log_read", !.ctx = c, !.msg = m]

\* _log_deployment_step returned to its caller.
LogStepReturned(l) ==
    CASE l.ctx = "action" ->
           \* next statement of the action's try body
           IF l.k < Len(StepMessages(l.args.action, l.args.image_name))
           THEN CallLogStep([l EXCEPT !.k = l.k + 1], "action",
                            StepMessages(l.args.action, l.args.image_name)[l.k + 1])
           ELSE [l EXCEPT !.pc = "fin_read"]
      [] l.ctx = "handler" ->
           \* the action's except clause re-raises; deploy's except is next
           [l EXCEPT !.pc = "exc_save"]
      [] OTHER -> Returned(l)

\* Exception e raised inside the action (by _log_deployment_step or by the
\* final status update).
ActionRaised(l, e) ==
    CASE l.ctx = "action" ->
           \* except clause of the action: log the failure, then re-raise
           CallLogStep([l EXCEPT !.err = e], "handler",
                       FailMessage(l.args.action, e))
      [] l.ctx = "handler" ->
           \* raised inside the except clause: e replaces the first fault
           [l EXCEPT !.pc = "exc_save", !.err = e]
      [] OTHER -> Raised(l, e)

\* A storage operation either works or, within the fault budget, raises.
Outcomes == {"ok", "fault"}
MayFault(o) == o = "fault" => faults < MaxFaults
CountFault(o) == faults' = IF o = "fault" THEN faults + 1 ELSE faults

\* ------------------------------------------------------------------ actions
\* POST /api/deploy: the handler draws its own job id and reads the body.
RouteDeploy(w, data) ==
    /\ wk[w].pc = "idle"
    /\ calls < MaxCalls
    /\ \E r \in JobIds :
         wk' = [wk EXCEPT ![w] =
                  [Idle EXCEPT
                     !.pc = "deploy", !.op = "deploy", !.rid = r,
                     !.args =
                        [action |-> Get(data, "action", "build"),
                         image_name |-> Get(data, "image", "my-app"),
                         environment |-> Get(data, "environment", "development"),
                         port_mapping |-> Get(data, "port_mapping", "8080:80"),
                         env_vars |-> Get(data, "env_vars", {})]]]
    /\ calls' = calls + 1
    /\ UNCHANGED <<hub, files, clock, faults, issued>>

\* DeploymentService.deploy up to the dispatch on the action: draw the job
\* id, write the initial record, enter the action or raise ValueError.
Deploy(w) ==
    /\ wk[w].pc = "deploy"
    /\ \E id \in JobIds, o \in Outcomes :
         /\ MayFault(o)
         /\ CountFault(o)
         /\ LET l == wk[w]
                dl == InitialLog(id, l.args, clock)
                s == [l EXCEPT !.job_id = id, !.deployment_log = <<dl>>,
                               !.started = TRUE, !.k = 1]
            IN  IF o = "ok"
                THEN /\ files' = SaveDeploymentLog(files, id, dl)
                     /\ wk' = [wk EXCEPT ![w] =
                                 IF l.args.action \in ValidActions
                                 THEN CallLogStep(s, "action",
                                        StepMessages(l.args.action,
                                                     l.args.image_name)[1])
                                 ELSE [s EXCEPT !.pc = "exc_save",
                                                !.err = UnknownAction(l.args.action)]]
                ELSE /\ files' = files
                     /\ wk' = [wk EXCEPT ![w] =
                                 Raised([l EXCEPT !.job_id = id], ErrIO)]
    /\ UNCHANGED <<hub, clock, calls, issued>>

\* _log_deployment_step, lines 125-130: read the record, append the entry
\* to the copy in memory.
LogStepRead(w) ==
    /\ wk[w].pc = "log_read"
    /\ \E o \in Outcomes :
         /\ MayFault(o)
         /\ CountFault(o)
         /\ LET l == wk[w]
                d == GetDeploymentLog(files, l.job_id)
                entry == [timestamp |-> clock, message |-> l.msg]
            IN  wk' = [wk EXCEPT ![w] =
                         IF o = "fault" THEN ActionRaised(l, ErrIO)
                         ELSE IF d = <<>> THEN ActionRaised(l, ErrKey)
                         ELSE [l EXCEPT
                                 !.pc = "log_write",
                                 !.rec = <<[d[1] EXCEPT
                                              !.logs = Append(@, entry)]>>]]
    /\ UNCHANGED <<hub, files, clock, calls, issued>>

\* _log_deployment_step, line 131: write the copy back.
LogStepWrite(w) ==
    /\ wk[w].pc = "log_write"
    /\ \E o \in Outcomes :
         /\ MayFault(o)
         /\ CountFault(o)
         /\ LET l == wk[w]
            IN  IF o = "ok"
                THEN /\ files' = SaveDeploymentLog(files, l.job_id, l.rec[1])
                     /\ wk' = [wk EXCEPT ![w] = LogStepReturned(l)]
                ELSE /\ files' = files
                     /\ wk' = [wk EXCEPT ![w] = ActionRaised(l, ErrIO)]
    /\ UNCHANGED <<hub, clock, calls, issued>>

\* End of _build_image/_run_container/_restart_container: read the record
\* and mark the copy completed.
FinRead(w) ==
    /\ wk[w].pc = "fin_read"
    /\ wk[w].job_id \in DOMAIN files      \* no operation deletes a file
    /\ \E o \in Outcomes :
         /\ MayFault(o)
         /\ CountFault(o)
         /\ LET l == wk[w]
                d == GetDeploymentLog(files, l.job_id)
            IN  wk' = [wk EXCEPT ![w] =
                         IF o = "fault" THEN ActionRaised(l, ErrIO)
                         ELSE [l EXCEPT
                                 !.pc = "fin_write",
                                 !.rec = <<[d[1] EXCEPT
                                              !.status = "completed",
                                              !.end_time = <<clock>>]>>]]
    /\ UNCHANGED <<hub, files, clock, calls, issued>>

\* ... and write it back; the action and deploy() then return.
FinWrite(w) ==
    /\ wk[w].pc = "fin_write"
    /\ \E o \in Outcomes :
         /\ MayFault(o)
         /\ CountFault(o)
         /\ LET l == wk[w]
            IN  IF o = "ok"
                THEN /\ files' = SaveDeploymentLog(files, l.job_id, l.rec[1])
                     /\ wk' = [wk EXCEPT ![w] = Returned(l)]
                ELSE /\ files' = files
                     /\ wk' = [wk EXCEPT ![w] = ActionRaised(l, ErrIO)]
    /\ UNCHANGED <<hub, clock, calls, issued>>

\* except clause of deploy(): mark the record deploy() built at the start
\* as failed, write it, re-raise.
ExcSave(w) ==
    /\ wk[w].pc = "exc_save"
    /\ \E o \in Outcomes :
         /\ MayFault(o)
         /\ CountFault(o)
         /\ LET l == wk[w]
                dl == [l.deployment_log[1] EXCEPT
                         !.status = "failed", !.error = <<l.err>>,
                         !.end_time = <<clock>>]
            IN  IF o = "ok"
                THEN /\ files' = SaveDeploymentLog(files, l.job_id, dl)
                     /\ wk' = [wk EXCEPT ![w] = Raised(l, l.err)]
                ELSE /\ files' = files
                     /\ wk' = [wk EXCEPT ![w] = Raised(l, ErrIO)]
    /\ UNCHANGED <<hub, clock, calls, issued>>

\* get_deployment_details: a table written into the code, not the job store.
DeploymentDetails ==
    [id \in DetailIds |->
       IF id = "abc123"
       THEN [job_id |-> "abc123", action |-> "build", image |-> "my-app:latest",
             environment |-> "production", port_mapping |-> "8080:80",
             env_vars |-> {<<"NODE_ENV", "production">>}]
       ELSE [job_id |-> "def456", action |-> "run", image |-> "nginx:latest",
             environment |-> "staging", port_mapping |-> "8081:80",
             env_vars |-> {}]]

\* POST /api/deploy/<job_id>/rerun: look job_id up in get_deployment_details,
\* answer 404 when it is not there, else draw a new id and call deploy().
RouteRerun(w, job_id) ==
    /\ wk[w].pc = "idle"
    /\ calls < MaxCalls
    /\ LET s == [Idle EXCEPT !.op = "rerun", !.target = job_id,
                             !.existed = job_id \in DOMAIN files]
       IN  IF job_id \in DOMAIN DeploymentDetails
           THEN \E r \in JobIds :
                  LET od == DeploymentDetails[job_id]
                  IN  wk' = [wk EXCEPT ![w] =
                               [s EXCEPT
                                  !.pc = "deploy", !.rid = r,
                                  !.args =
                                     [action |-> od.action,
                                      image_name |-> od.image,
                                      environment |-> od.environment,
                                      port_mapping |-> od.port_mapping,
                                      env_vars |-> od.env_vars]]]
           ELSE wk' = [wk EXCEPT ![w] =
                         [s EXCEPT
                            !.pc = "done",
                            !.resp =
                               [NoResp EXCEPT
                                  !.outcome = "not_found", !.code = 404,
                                  !.message = "Original deployment not found"]]]
    /\ calls' = calls + 1
    /\ UNCHANGED <<hub, files, clock, faults, issued>>

\* DeploymentService.rerun_deployment: read the original's record from the
\* store, raise ValueError when it is empty, else call deploy() with the
\* original's parameters.
rerun_deployment(w, job_id) ==
    /\ wk[w].pc = "idle"
    /\ calls < MaxCalls
    /\ \E o \in Outcomes :
         /\ MayFault(o)
         /\ CountFault(o)
         /\ LET s == [Idle EXCEPT !.op = "rerun_service", !.target = job_id,
                                  !.existed = job_id \in DOMAIN files]
                d == GetDeploymentLog(files, job_id)
            IN  wk' = [wk EXCEPT ![w] =
                         IF o = "fault" THEN Raised(s, ErrIO)
                         ELSE IF d = <<>> THEN Raised(s, ErrNotFound)
                         ELSE [s EXCEPT
                                 !.pc = "deploy",
                                 !.args =
                                    [action |-> d[1].action,
                                     image_name |-> d[1].image_name,
                                     environment |-> d[1].environment,
                                     port_mapping |-> d[1].port_mapping,
                                     env_vars |-> d[1].env_vars]]]
    /\ calls' = calls + 1
    /\ UNCHANGED <<hub, files, clock, issued>>

\* What GET /api/deployment-status/<job_id> answers from the dict that
\* get_deployment_status returns: status.get('status', 'unknown') and
\* status.get('progress', 0).
DeploymentStatus(fs, job_id) ==
    LET d == GetDeploymentLog(fs, job_id)
    IN  [NoResp EXCEPT
           !.outcome = "ok", !.code = 200, !.job_id = job_id,
           !.status = IF d = <<>> THEN "unknown" ELSE d[1].status,
           !.progress = IF d = <<>> THEN 0 ELSE d[1].progress]

\* GET /api/deployment-status/<job_id>: one read of the store; an exception
\* is answered with 500.
RouteStatus(w, job_id) ==
    /\ wk[w].pc = "idle"
    /\ calls < MaxCalls
    /\ \E o \in Outcomes :
         /\ MayFault(o)
         /\ CountFault(o)
         /\ LET s == [Idle EXCEPT !.op = "status", !.target = job_id,
                                  !.existed = job_id \in DOMAIN files]
            IN  wk' = [wk EXCEPT ![w] =
                         IF o = "fault" THEN Raised(s, ErrIO)
                         ELSE [s EXCEPT
                                 !.pc = "done",
                                 !.resp = DeploymentStatus(files, job_id)]]
    /\ calls' = calls + 1
    /\ UNCHANGED <<hub, files, clock, issued>>

\* The <job id>.log files of logs/deployments, job id -> lines of text.
\* The program writes <job id>.json files there and nothing else, so the
\* directory holds no such file.
TextLogs == [i \in {} |-> <<>>]

\* get_deployment_logs: the text of <job_id>.log when that file exists, else
\* the sentence f"No logs found for job {job_id}".
GetDeploymentLogs(job_id) ==
    IF job_id \in DOMAIN TextLogs
    THEN TextLogs[job_id]
    ELSE << <<"No logs found for job ", job_id>> >>

\* GET /api/logs/<job_id>: answers 200 with what get_deployment_logs
\* returned.  os.path.exists does not raise and open() is not reached.
RouteLogs(w, job_id) ==
    /\ wk[w].pc = "idle"
    /\ calls < MaxCalls
    /\ wk' = [wk EXCEPT ![w] =
                [Idle EXCEPT
                   !.pc = "done", !.op = "logs", !.target = job_id,
                   !.existed = job_id \in DOMAIN files,
                   !.resp = [NoResp EXCEPT
                               !.outcome = "ok", !.code = 200,
                               !.job_id = job_id,
                               !.logs = GetDeploymentLogs(job_id)]]]
    /\ calls' = calls + 1
    /\ UNCHANGED <<hub, files, clock, faults, issued>>

\* The list written into get_deployment_history (the job ids of its three
\* summaries, in the order of the list).
Deployments == <<"abc123", "def456", "ghi789">>

\* The values of the parameter limit: None is <<>>, the integer n is <<n>>.
Limits == {<<>>} \cup {<<n>> : n \in 0..MaxLimit}

\* get_deployment_history(limit): `if limit: return deployments[:limit]`,
\* else the whole list (None and 0 are both false).
GetDeploymentHistory(limit) ==
    IF limit # <<>> /\ limit[1] # 0
    THEN SubSeq(Deployments, 1,
                IF limit[1] < Len(Deployments) THEN limit[1]
                ELSE Len(Deployments))
    ELSE Deployments

\* A call of DeploymentService.get_deployment_history(limit).
HistoryCall(w, limit) ==
    /\ wk[w].pc = "idle"
    /\ calls < MaxCalls
    /\ wk' = [wk EXCEPT ![w] =
                [Idle EXCEPT
                   !.pc = "done", !.op = "history", !.limit = limit,
                   !.resp = [NoResp EXCEPT
                               !.outcome = "ok",
                               !.history = GetDeploymentHistory(limit)]]]
    /\ calls' = calls + 1
    /\ UNCHANGED <<hub, files, clock, faults, issued>>

\* GET /api/deployments: get_deployment_history() with no limit.
RouteDeployments(w) ==
    /\ wk[w].pc = "idle"
    /\ calls < MaxCalls
    /\ wk' = [wk EXCEPT ![w] =
                [Idle EXCEPT
                   !.pc = "done", !.op = "deployments",
                   !.resp = [NoResp EXCEPT
                               !.outcome = "ok", !.code = 200,
                               !.history = GetDeploymentHistory(<<>>)]]]
    /\ calls' = calls + 1
    /\ UNCHANGED <<hub, files, clock, faults, issued>>

\* The answer has reached the caller; the thread is free again.
Return(w) ==
    /\ wk[w].pc = "done"
    /\ wk' = [wk EXCEPT ![w] = Idle]
    /\ issued' =
         IF wk[w].op = "deploy" /\ wk[w].resp.outcome = "ok"
         THEN issued \cup {wk[w].resp.job_id}
         ELSE issued
    /\ UNCHANGED <<hub, files, clock, calls, faults>>

\* Time passes.
Tick ==
    /\ clock < MaxClock
    /\ clock' = clock + 1
    /\ UNCHANGED <<hub, files, wk, calls, faults, issued>>

\* ================================================== RealtimeService (the hub)
\* Event handlers run on threads of their own (async_mode='threading'), and
\* start_monitoring starts three more threads each time it gets past its
\* check.  A step is one access to the service's shared attributes or one
\* call into Flask-SocketIO.  socketio.emit(event, payload) without a room
\* is a broadcast to every session the transport holds open;
\* join_room/leave_room change the membership of a room for request.sid, and
\* the transport takes a session out of its rooms when it closes it.

\* request.sid of the connections clients open (a sid is never used twice).
Sids == {ToString(i) : i \in 1..MaxConns}

\* Keys of streaming_threads that start_monitoring sets.
Kinds == {"system_metrics", "deployments", "containers"}

Gens == 1..MaxStarts

\* A thread created by start_monitoring: <<which creation, which loop>>.
LoopIds == Gens \X Kinds

Starters == 1..MaxStarters

\* Payloads of join_logs/leave_logs: with a job id, or without one.
NoJob == [level |-> "INFO"]
RoomData == {[job_id |-> j] : j \in JobIds} \cup {NoJob}

\* What monitoring_service.get_container_stats() can do: return the list,
\* return its error dict, or raise (no docker module: the except clause
\* itself names docker.errors).
ContainerOutcomes == {"list", "error_dict", "raise"}

\* The sessions the transport holds open.
Sessions == {s \in Sids : conn[s] \in {"connecting", "on", "closing"}}

\* Thread t of start_monitoring is running.
Alive(t) == loops[t].pc \notin {"unborn", "exited"}

\* An emit that goes by a list of every session that ever connected.
BroadcastStale(event, data, cause, origin) ==
    {[event |-> event, data |-> data, to |-> s, cause |-> cause,
      origin |-> origin] : s \in {x \in Sids : conn[x] # "off"}}

\* self.socketio.emit(event, payload): one message per open session.
Broadcast(event, data, cause, origin) ==
    {[event |-> event, data |-> data, to |-> s, cause |-> cause,
      origin |-> origin] : s \in Sessions}

\* What a step handled: an event of session sid, a call for job_id, the
\* emits of loop thread loop; name is "" for every other step.  member
\* tells, for join_logs and leave_logs, whether the session was in the
\* job's room when the event arrived.
Event(name, sid, job_id, loop) ==
    [name |-> name, sid |-> sid, job_id |-> job_id, loop |-> loop,
     member |-> FALSE]

\* The join_logs or leave_logs event of session sid for job_id.
RoomEvent(name, sid, job_id) ==
    [Event(name, sid, job_id, <<0, "">>) EXCEPT
        !.member = job_id # "" /\ sid \in rooms[job_id]]

NoLoop == <<0, "">>
NoEvent == Event("", "", "", NoLoop)

\* get_connection_count.
GetConnectionCount == Cardinality(active_connections)

\* A call or client event may start.
MayCall == hcalls < MaxEvents

\* Some client is there to send an event.
ClientOn == \E s \in Sids : conn[s] = "on"

\* The threads start_monitoring creates at its n-th creation.
Spawn(ls, n) ==
    [t \in LoopIds |->
        IF t[1] = n THEN [pc |-> "test", told |-> FALSE] ELSE ls[t]]

\* app.py has built the service and called start_monitoring() once.
HubInit ==
    /\ active_connections = {}
    /\ conn = [s \in Sids |-> "off"]
    /\ rooms = [j \in JobIds |-> {}]
    /\ is_running = TRUE
    /\ loops = Spawn([t \in LoopIds |-> [pc |-> "unborn", told |-> FALSE]], 1)
    /\ gen = 1
    /\ streams = {}
    /\ st = [h \in Starters |-> "idle"]
    /\ hcalls = 0
    /\ sent = {}
    /\ subscribed = {}
    /\ ev = NoEvent

\* A handle_connect that does not add the session to active_connections.
HandleConnectForgets(s) ==
    /\ ev' = Event("connect", s, "", NoLoop)
    /\ conn[s] = "off"
    /\ MayCall
    /\ conn' = [conn EXCEPT ![s] = "connecting"]
    /\ hcalls' = hcalls + 1
    /\ sent' = {}
    /\ UNCHANGED <<tracker, active_connections, rooms, is_running, loops, gen,
                   streams, st, subscribed>>

\* handle_connect, line 37, and emit_system_status: the session is added;
\* monitoring_service has no get_system_status, the AttributeError is caught
\* and logged inside emit_system_status and nothing is emitted.
HandleConnect(s) ==
    /\ ev' = Event("connect", s, "", NoLoop)
    /\ conn[s] = "off"
    /\ MayCall
    /\ conn' = [conn EXCEPT ![s] = "connecting"]
    /\ active_connections' = active_connections \cup {s}
    /\ hcalls' = hcalls + 1
    /\ sent' = {}
    /\ UNCHANGED <<tracker, rooms, is_running, loops, gen, streams, st,
                   subscribed>>

\* handle_connect, line 41: emit_deployment_metrics (get_deployment_metrics
\* catches its own exceptions and always returns a dict).
ConnectEmit(s) ==
    /\ ev' = NoEvent
    /\ conn[s] = "connecting"
    /\ conn' = [conn EXCEPT ![s] = "on"]
    /\ sent' = Broadcast("deployment_metrics", "dict", "connect", s)
    /\ UNCHANGED <<tracker, active_connections, rooms, is_running, loops, gen,
                   streams, st, hcalls, subscribed>>

\* A handle_disconnect that forgets the discard.
HandleDisconnectKeeps(s) ==
    /\ ev' = Event("disconnect", s, "", NoLoop)
    /\ conn[s] = "on"
    /\ conn' = [conn EXCEPT ![s] = "closing"]
    /\ sent' = {}
    /\ UNCHANGED <<tracker, active_connections, rooms, is_running, loops, gen,
                   streams, st, hcalls, subscribed>>

\* handle_disconnect: the session leaves active_connections.
HandleDisconnect(s) ==
    /\ ev' = Event("disconnect", s, "", NoLoop)
    /\ conn[s] = "on"
    /\ conn' = [conn EXCEPT ![s] = "closing"]
    /\ active_connections' = active_connections \ {s}
    /\ sent' = {}
    /\ UNCHANGED <<tracker, rooms, is_running, loops, gen, streams, st,
                   hcalls, subscribed>>

\* The handler has returned: the transport closes the session and takes it
\* out of its rooms.
SessionClosed(s) ==
    /\ ev' = NoEvent
    /\ conn[s] = "closing"
    /\ conn' = [conn EXCEPT ![s] = "gone"]
    /\ rooms' = [j \in JobIds |-> rooms[j] \ {s}]
    /\ sent' = {}
    /\ UNCHANGED <<tracker, active_connections, is_running, loops, gen,
                   streams, st, hcalls, subscribed>>

\* A handle_join_logs that takes a second join_logs for the same room as a
\* request to leave it.
HandleJoinLogsToggles(s, data) ==
    /\ ev' = RoomEvent("join_logs", s, Get(data, "job_id", ""))
    /\ conn[s] = "on"
    /\ MayCall
    /\ LET job_id == Get(data, "job_id", "")
       IN  IF job_id # ""
           THEN /\ rooms' = [rooms EXCEPT ![job_id] =
                                 IF s \in @ THEN @ \ {s} ELSE @ \cup {s}]
                /\ subscribed' = subscribed \cup {s}
           ELSE UNCHANGED <<rooms, subscribed>>
    /\ hcalls' = hcalls + 1
    /\ sent' = {}
    /\ UNCHANGED <<tracker, active_connections, conn, is_running, loops, gen,
                   streams, st>>

\* handle_join_logs: join_room(f"logs_{job_id}") when the payload has one.
HandleJoinLogs(s, data) ==
    /\ ev' = RoomEvent("join_logs", s, Get(data, "job_id", ""))
    /\ conn[s] = "on"
    /\ MayCall
    /\ LET job_id == Get(data, "job_id", "")
       IN  IF job_id # ""
           THEN /\ rooms' = [rooms EXCEPT ![job_id] = @ \cup {s}]
                /\ subscribed' = subscribed \cup {s}
           ELSE UNCHANGED <<rooms, subscribed>>
    /\ hcalls' = hcalls + 1
    /\ sent' = {}
    /\ UNCHANGED <<tracker, active_connections, conn, is_running, loops, gen,
                   streams, st>>

\* handle_leave_logs: leave_room(f"logs_{job_id}") when the payload has one.
HandleLeaveLogs(s, data) ==
    /\ ev' = RoomEvent("leave_logs", s, Get(data, "job_id", ""))
    /\ conn[s] = "on"
    /\ MayCall
    /\ LET job_id == Get(data, "job_id", "")
       IN  IF job_id # ""
           THEN rooms' = [rooms EXCEPT ![job_id] = @ \ {s}]
           ELSE UNCHANGED rooms
    /\ hcalls' = hcalls + 1
    /\ sent' = {}
    /\ UNCHANGED <<tracker, active_connections, conn, is_running, loops, gen,
                   streams, st, subscribed>>

\* handle_start_monitoring: `if not self.is_running: self.start_monitoring()`.
HandleStartMonitoring(h) ==
    /\ ev' = Event("start_monitoring", "", "", NoLoop)
    /\ st[h] = "idle"
    /\ ClientOn
    /\ MayCall
    /\ gen + Cardinality({g \in Starters : st[g] # "idle"}) < MaxStarts
    /\ st' = [st EXCEPT ![h] = IF is_running THEN "idle" ELSE "start"]
    /\ hcalls' = hcalls + 1
    /\ sent' = {}
    /\ UNCHANGED <<tracker, active_connections, conn, rooms, is_running, loops,
                   gen, streams, subscribed>>

\* start_monitoring, lines 78-79: `if self.is_running: return`.
StartMonitoringCheck(h) ==
    /\ ev' = NoEvent
    /\ st[h] = "start"
    /\ st' = [st EXCEPT ![h] = IF is_running THEN "idle" ELSE "set"]
    /\ sent' = {}
    /\ UNCHANGED <<tracker, active_connections, conn, rooms, is_running, loops,
                   gen, streams, hcalls, subscribed>>

\* start_monitoring, lines 81-103: set the flag, create and start the three
\* threads.
StartMonitoringSet(h) ==
    /\ ev' = NoEvent
    /\ st[h] = "set"
    /\ is_running' = TRUE
    /\ gen' = gen + 1
    /\ loops' = Spawn(loops, gen + 1)
    /\ st' = [st EXCEPT ![h] = "idle"]
    /\ sent' = {}
    /\ UNCHANGED <<tracker, active_connections, conn, rooms, streams, hcalls,
                   subscribed>>

\* handle_stop_monitoring / stop_monitoring: clear the flag.  told records,
\* for each thread, that the flag was cleared while it was running.
HandleStopMonitoring ==
    /\ ev' = Event("stop_monitoring", "", "", NoLoop)
    /\ ClientOn
    /\ MayCall
    /\ is_running' = FALSE
    /\ loops' = [t \in LoopIds |->
                   IF Alive(t) THEN [loops[t] EXCEPT !.told = TRUE]
                   ELSE loops[t]]
    /\ hcalls' = hcalls + 1
    /\ sent' = {}
    /\ UNCHANGED <<tracker, active_connections, conn, rooms, gen, streams, st,
                   subscribed>>

\* `while self.is_running:` of a _stream_* loop.
LoopTest(t) ==
    /\ ev' = NoEvent
    /\ loops[t].pc = "test"
    /\ loops' = [loops EXCEPT ![t].pc = IF is_running THEN "check"
                                        ELSE "exited"]
    /\ sent' = {}
    /\ UNCHANGED <<tracker, active_connections, conn, rooms, is_running, gen,
                   streams, st, hcalls, subscribed>>

\* A _stream_* loop that emits without looking at active_connections.
LoopCheckSkipped(t) ==
    /\ ev' = NoEvent
    /\ loops[t].pc = "check"
    /\ loops' = [loops EXCEPT ![t].pc = "emit"]
    /\ sent' = {}
    /\ UNCHANGED <<tracker, active_connections, conn, rooms, is_running, gen,
                   streams, st, hcalls, subscribed>>

\* `if self.active_connections:` of a _stream_* loop.
LoopCheck(t) ==
    /\ ev' = NoEvent
    /\ loops[t].pc = "check"
    /\ loops' = [loops EXCEPT ![t].pc = IF active_connections # {} THEN "emit"
                                        ELSE "sleep"]
    /\ sent' = {}
    /\ UNCHANGED <<tracker, active_connections, conn, rooms, is_running, gen,
                   streams, st, hcalls, subscribed>>

\* What the emit_* calls of one iteration of the loop `kind` hand to the
\* transport when get_container_stats does o.
TickMessages(kind, o) ==
    CASE kind = "system_metrics" -> {}
      [] kind = "deployments" ->
           Broadcast("deployment_metrics", "dict", "loop", "")
      [] OTHER ->
           IF o = "raise" THEN {}
           ELSE Broadcast("container_stats", o, "loop", "")

\* Whether an emit_* call of that iteration caught an exception:
\* emit_system_status and emit_recent_deployments always do, and
\* emit_container_stats does when get_container_stats raises.
TickFaults(kind, o) ==
    kind \in {"system_metrics", "deployments"} \/ o = "raise"

\* A _stream_* loop without the try/except of its emit_* calls and of its
\* body: a failing call ends the thread.
LoopEmitDies(t) ==
    /\ loops[t].pc = "emit"
    /\ \E o \in IF t[2] = "containers" THEN ContainerOutcomes ELSE {"list"} :
         /\ loops' = [loops EXCEPT ![t].pc = IF TickFaults(t[2], o)
                                             THEN "exited" ELSE "sleep"]
         /\ sent' = IF TickFaults(t[2], o) THEN {} ELSE TickMessages(t[2], o)
         /\ ev' = Event(IF TickFaults(t[2], o) THEN "tick_fault" ELSE "tick",
                        "", "", t)
    /\ UNCHANGED <<tracker, active_connections, conn, rooms, is_running, gen,
                   streams, st, hcalls, subscribed>>

\* A _stream_* loop whose except clause stops monitoring when an emit_*
\* call fails.
LoopEmitStops(t) ==
    /\ loops[t].pc = "emit"
    /\ loops' = [loops EXCEPT ![t].pc = "sleep"]
    /\ \E o \in IF t[2] = "containers" THEN ContainerOutcomes ELSE {"list"} :
         /\ sent' = TickMessages(t[2], o)
         /\ is_running' = (is_running /\ ~TickFaults(t[2], o))
         /\ ev' = Event(IF TickFaults(t[2], o) THEN "tick_fault" ELSE "tick",
                        "", "", t)
    /\ UNCHANGED <<tracker, active_connections, conn, rooms, gen, streams, st,
                   hcalls, subscribed>>

\* The emit_* calls of a _stream_* loop.  emit_system_status and
\* emit_recent_deployments call methods their services do not have
\* (get_system_status, get_recent_deployments): the AttributeError is caught
\* and logged inside them and nothing is emitted.
LoopEmit(t) ==
    /\ loops[t].pc = "emit"
    /\ loops' = [loops EXCEPT ![t].pc = "sleep"]
    /\ \E o \in IF t[2] = "containers" THEN ContainerOutcomes ELSE {"list"} :
         /\ sent' = TickMessages(t[2], o)
         /\ ev' = Event(IF TickFaults(t[2], o) THEN "tick_fault" ELSE "tick",
                        "", "", t)
    /\ UNCHANGED <<tracker, active_connections, conn, rooms, is_running, gen,
                   streams, st, hcalls, subscribed>>

\* time.sleep(...) of a _stream_* loop is over.
LoopWake(t) ==
    /\ ev' = NoEvent
    /\ loops[t].pc = "sleep"
    /\ loops' = [loops EXCEPT ![t].pc = "test"]
    /\ sent' = {}
    /\ UNCHANGED <<tracker, active_connections, conn, rooms, is_running, gen,
                   streams, st, hcalls, subscribed>>

\* A client sends an event no handler is registered for (the test
\* test_deployment_status_event sends 'deployment_status'): nothing runs.
UnhandledEvent(s) ==
    /\ ev' = Event("unhandled", s, "", NoLoop)
    /\ conn[s] = "on"
    /\ MayCall
    /\ hcalls' = hcalls + 1
    /\ sent' = {}
    /\ UNCHANGED <<tracker, active_connections, conn, rooms, is_running, loops,
                   gen, streams, st, subscribed>>

\* An emit_notification that emits only while is_running is set.
EmitNotificationWhileRunning ==
    /\ ev' = Event("notification", "", "", NoLoop)
    /\ MayCall
    /\ hcalls' = hcalls + 1
    /\ sent' = IF is_running
               THEN Broadcast("notification", "dict", "notification", "")
               ELSE {}
    /\ UNCHANGED <<tracker, active_connections, conn, rooms, is_running, loops,
                   gen, streams, st, subscribed>>

\* POST /api/notifications/send: emit_notification.
EmitNotification ==
    /\ ev' = Event("notification", "", "", NoLoop)
    /\ MayCall
    /\ hcalls' = hcalls + 1
    /\ sent' = Broadcast("notification", "dict", "notification", "")
    /\ UNCHANGED <<tracker, active_connections, conn, rooms, is_running, loops,
                   gen, streams, st, subscribed>>

\* A log_streamer whose events go out without the room.
StreamDeploymentLogsToAll(job_id) ==
    /\ ev' = Event("stream_logs", "", job_id, NoLoop)
    /\ MayCall
    /\ hcalls' = hcalls + 1
    /\ streams' = streams \cup {job_id}
    /\ sent' = Broadcast("new_log", "entry", "stream", job_id)
    /\ UNCHANGED <<tracker, active_connections, conn, rooms, is_running, loops,
                   gen, st, subscribed>>

\* POST /api/logs/stream/start/<job_id>: stream_deployment_logs starts the
\* thread log_streamer and enters it in streaming_threads.  log_streamer
\* calls monitoring_service.get_deployment_logs, which MonitoringService
\* does not have: the AttributeError is caught and logged and the thread
\* ends without an emit.
StreamDeploymentLogs(job_id) ==
    /\ ev' = Event("stream_logs", "", job_id, NoLoop)
    /\ MayCall
    /\ hcalls' = hcalls + 1
    /\ streams' = streams \cup {job_id}
    /\ sent' = {}
    /\ UNCHANGED <<tracker, active_connections, conn, rooms, is_running, loops,
                   gen, st, subscribed>>

\* ------------------------------------------------------------ specification
\* A fresh process: ensure_logs_dir has made an empty logs/deployments.
Init ==
    /\ files = [i \in {} |-> InitialLog("", NoArgs, 0)]
    /\ clock = 0
    /\ wk = [w \in Workers |-> Idle]
    /\ calls = 0
    /\ faults = 0
    /\ issued = {}
    /\ HubInit

Next ==
    \/ \E w \in Workers, data \in Requests : RouteDeploy(w, data)
    \/ \E w \in Workers, id \in ReqIds : RouteRerun(w, id)
    \/ \E w \in Workers, id \in ReqIds : rerun_deployment(w, id)
    \/ \E w \in Workers, id \in ReqIds : RouteStatus(w, id)
    \/ \E w \in Workers, id \in ReqIds : RouteLogs(w, id)
    \/ \E w \in Workers, limit \in Limits \ {<<>>} : HistoryCall(w, limit)
    \/ \E w \in Workers : RouteDeployments(w)
    \/ \E w \in Workers : Deploy(w)
    \/ \E w \in Workers : LogStepRead(w)
    \/ \E w \in Workers : LogStepWrite(w)
    \/ \E w \in Workers : FinRead(w)
    \/ \E w \in Workers : FinWrite(w)
    \/ \E w \in Workers : ExcSave(w)
    \/ \E w \in Workers : Return(w)
    \/ Tick

Spec == Init /\ [][Next]_vars

\* ------------------------------------- concurrent _log_deployment_step calls
\* The message of caller c.
AppendMessage(c) == <<"step ", ToString(c)>>

\* Caller c calls _log_deployment_step(job_id, message), once.
AppendStep(c, job_id) ==
    /\ wk[c].pc = "idle"
    /\ wk[c].op = "none"
    /\ wk' = [wk EXCEPT ![c] =
                CallLogStep([Idle EXCEPT !.op = "append", !.target = job_id,
                                         !.job_id = job_id,
                                         !.existed = job_id \in DOMAIN files],
                            "append", AppendMessage(c))]
    /\ UNCHANGED <<hub, files, clock, calls, faults, issued>>

\* The job the callers append to: as deploy() has just written it.
AppendJob == "1f3a9c0e"

InitAppend ==
    /\ files = [i \in {AppendJob} |->
                  InitialLog(AppendJob,
                             [action |-> "build", image_name |-> "my-app",
                              environment |-> "development",
                              port_mapping |-> "8080:80", env_vars |-> {}],
                             0)]
    /\ clock = 0
    /\ wk = [c \in Callers |-> Idle]
    /\ calls = 0
    /\ faults = 0
    /\ issued = {}
    /\ HubInit

NextAppend ==
    \/ \E c \in Callers, id \in JobIds : AppendStep(c, id)
    \/ \E c \in Callers : LogStepRead(c)
    \/ \E c \in Callers : LogStepWrite(c)
    \/ Tick

SpecAppend == InitAppend /\ [][NextAppend]_vars

\* --------------------------------------------------------- the hub on its own
NextHub ==
    \/ \E s \in Sids : HandleConnect(s)
    \/ \E s \in Sids : ConnectEmit(s)
    \/ \E s \in Sids : HandleDisconnect(s)
    \/ \E s \in Sids : SessionClosed(s)
    \/ \E s \in Sids, data \in RoomData : HandleJoinLogs(s, data)
    \/ \E s \in Sids, data \in RoomData : HandleLeaveLogs(s, data)
    \/ \E h \in Starters : HandleStartMonitoring(h)
    \/ \E h \in Starters : StartMonitoringCheck(h)
    \/ \E h \in Starters : StartMonitoringSet(h)
    \/ HandleStopMonitoring
    \/ \E t \in LoopIds : LoopTest(t)
    \/ \E t \in LoopIds : LoopCheck(t)
    \/ \E t \in LoopIds : LoopEmit(t)
    \/ \E t \in LoopIds : LoopWake(t)
    \/ \E s \in Sids : UnhandledEvent(s)
    \/ EmitNotification
    \/ \E job_id \in JobIds : StreamDeploymentLogs(job_id)

\* The job store the hub finds: job AppendJob, a build that has completed
\* with its three steps logged.
StoredJob ==
    [InitialLog(AppendJob,
                [action |-> "build", image_name |-> "my-app",
                 environment |-> "development", port_mapping |-> "8080:80",
                 env_vars |-> {}],
                0)
       EXCEPT !.status = "completed", !.end_time = <<0>>,
              !.logs = [k \in 1..3 |->
                          [timestamp |-> 0,
                           message |-> StepMessages("build", "my-app")[k]]]]

InitHub ==
    /\ files = [i \in {AppendJob} |-> StoredJob]
    /\ clock = 0
    /\ wk = [w \in Workers |-> Idle]
    /\ calls = 1
    /\ faults = 0
    /\ issued = {AppendJob}
    /\ HubInit

SpecHub == InitHub /\ [][NextHub]_vars

\* ============================================================== properties
IsPrefix(s, t) == Len(s) <= Len(t) /\ SubSeq(t, 1, Len(s)) = s

\* The parameters a rerun is to carry over.
Parameters(r) ==
    <<r.action, r.image_name, r.environment, r.port_mapping, r.env_vars>>

\* Thread w takes the step.
Steps(w) == wk'[w] # wk[w]

\* Thread w has just been answered by operation op.
Answered(w, op) == wk[w].pc = "done" /\ wk[w].op = op

\* C1: the job id that /api/deploy hands back for a valid action was handed
\* back by no earlier submit, and a record is stored under exactly that id,
\* so the status of that id is not 'unknown'.
C1_SubmitReturnsStoredFreshId ==
    \A w \in Workers :
        Answered(w, "deploy") /\ wk[w].resp.outcome = "ok" =>
            /\ wk[w].resp.job_id \notin issued
            /\ wk[w].resp.job_id \in DOMAIN files
            /\ DeploymentStatus(files, wk[w].resp.job_id).status # "unknown"

\* C2: a submit whose action is outside {build, run, restart} is refused and
\* none of its steps changes the job store: no record is created for it.
C2_InvalidActionWritesNothing ==
    [][\A w \in Workers :
          /\ wk[w].op = "deploy"
          /\ wk[w].args.action \notin ValidActions
          /\ Steps(w)
          => /\ files' = files
             /\ wk'[w].pc = "done" => wk'[w].resp.outcome = "error"]_vars

\* C3: once every call of _log_deployment_step has returned, each job's log
\* holds exactly one entry per call that returned normally for that job:
\* none is lost, none is duplicated.
C3_ConcurrentAppendsAllKept ==
    (\A c \in Callers : wk[c].pc \in {"idle", "done"}) =>
        \A id \in DOMAIN files :
            LET ok == {c \in Callers :
                          /\ Answered(c, "append")
                          /\ wk[c].job_id = id
                          /\ wk[c].resp.outcome = "ok"}
                logs == files[id].logs
            IN  /\ Len(logs) = Cardinality(ok)
                /\ \A c \in ok :
                     Cardinality({i \in 1..Len(logs) :
                                     logs[i].message = AppendMessage(c)}) = 1

\* C4: every write to a started job (an appended step, the success write,
\* the failure write) leaves the log stored before it as a prefix of the log
\* stored after it.
C4_LogsOnlyGrow ==
    [][\A w \in Workers :
          Steps(w) /\ wk[w].pc # "deploy" =>
              \A id \in DOMAIN files :
                  /\ id \in DOMAIN files'
                  /\ IsPrefix(files[id].logs, files'[id].logs)]_vars

\* C5: when the action of a started job raised, the submit ends with the
\* stored record 'failed' with the error text in it, and the caller is not
\* answered with an error.
C5_FaultBecomesFailedRecord ==
    \A w \in Workers :
        /\ Answered(w, "deploy")
        /\ wk[w].args.action \in ValidActions
        /\ wk[w].started
        /\ wk[w].err # ""
        => /\ files[wk[w].job_id].status = "failed"
           /\ files[wk[w].job_id].error = <<wk[w].err>>
           /\ wk[w].resp.outcome = "ok"

\* C6: when a submit returns after its action succeeded, the stored record
\* is 'completed' with progress 100 and an end time that is set and not
\* before the start time.
C6_SuccessRecordCompleted ==
    \A w \in Workers :
        Answered(w, "deploy") /\ wk[w].resp.outcome = "ok" =>
            LET r == files[wk[w].job_id]
            IN  /\ r.status = "completed"
                /\ r.progress = 100
                /\ r.end_time # <<>>
                /\ r.end_time[1] >= r.start_time

\* C7: a record is created 'running', its status changes only from running
\* to completed or failed, and a record that is completed or failed is
\* never written again, whatever is submitted or rerun later (stated for the
\* jobs of a valid action).
C7_TerminalRecordsFrozen ==
    [][/\ \A id \in DOMAIN files' \ DOMAIN files :
             files'[id].status = "running"
       /\ \A id \in DOMAIN files :
             files[id].action \in ValidActions =>
                /\ files[id].status \in {"completed", "failed"} =>
                       files'[id] = files[id]
                /\ files'[id].status # files[id].status =>
                       /\ files[id].status = "running"
                       /\ files'[id].status \in {"completed", "failed"}]_vars

\* C8: a rerun request for a job that is in the store (submitted earlier
\* with a valid action) is answered with success and an id other than the
\* original's, and the record under that id carries the original's
\* parameters.
C8_RerunOfStoredJob ==
    \A w \in Workers :
        /\ Answered(w, "rerun")
        /\ wk[w].existed
        /\ files[wk[w].target].action \in ValidActions
        =>
            /\ wk[w].resp.outcome = "ok"
            /\ wk[w].resp.job_id # wk[w].target
            /\ wk[w].resp.job_id \in DOMAIN files
            /\ Parameters(files[wk[w].resp.job_id])
                 = Parameters(files[wk[w].target])

\* C9: a rerun request for a job id that is not in the store is answered
\* NotFound and goes no further: it never enters deploy(), so it creates
\* no record.
C9_RerunOfUnknownJob ==
    \A w \in Workers :
        wk[w].op = "rerun" /\ ~wk[w].existed =>
            /\ wk[w].pc = "done"
            /\ wk[w].resp.outcome = "not_found"

\* C10: the initial record of a job is never written under an id that
\* already has a record in the store (stated for the jobs of a valid
\* action).
C10_IdAllocatedOnce ==
    [][\A w \in Workers :
          /\ wk[w].pc = "deploy"
          /\ wk[w].args.action \in ValidActions
          /\ Steps(w)
          /\ wk'[w].started
          => \A id \in DOMAIN files :
                 files[id].action \in ValidActions => wk'[w].job_id # id]_vars

\* C11: a status request for a job id that has no record in the store is
\* answered NotFound, not with a status record.
C11_StatusOfUnknownJobIsNotFound ==
    \A w \in Workers :
        /\ Answered(w, "status")
        /\ ~wk[w].existed
        /\ wk[w].resp.outcome # "error"
        => wk[w].resp.outcome = "not_found"

\* C12: the logs answered for a job that is in the store are the messages
\* of the entries _log_deployment_step has stored for it, in their order
\* (stated for the jobs of a valid action).
C12_LogsAreTheAppendedEntries ==
    \A w \in Workers :
        /\ Answered(w, "logs")
        /\ wk[w].existed
        /\ files[wk[w].target].action \in ValidActions
        =>  wk[w].resp.logs =
                [i \in 1..Len(files[wk[w].target].logs) |->
                    files[wk[w].target].logs[i].message]

\* C13: get_deployment_history(limit), limit >= 0, returns
\* min(limit, number of jobs created) jobs of the store, each once, newest
\* first, and no job left out is newer than one returned.
C13_HistoryIsNewestCreatedJobs ==
    \A w \in Workers :
        Answered(w, "history") =>
            LET h == wk[w].resp.history
                n == wk[w].limit[1]
                created == DOMAIN files
            IN  /\ Len(h) = IF n < Cardinality(created) THEN n
                            ELSE Cardinality(created)
                /\ \A i \in 1..Len(h) : h[i] \in created
                /\ \A i, j \in 1..Len(h) :
                     i < j => /\ h[i] # h[j]
                              /\ files[h[i]].start_time >= files[h[j]].start_time
                /\ \A id \in created \ {h[i] : i \in 1..Len(h)} :
                     \A i \in 1..Len(h) :
                        files[id].start_time <= files[h[i]].start_time

\* C14: every call of _log_deployment_step returns normally to its caller,
\* for a job id without a record and under a storage fault as well.
C14_AppendStepNeverRaises ==
    \A c \in Callers :
        Answered(c, "append") => wk[c].resp.outcome = "ok"

\* C15: at any time at most one thread of each kind (system metrics,
\* deployments, containers) is running, whatever start_monitoring and
\* stop_monitoring calls came before.
C15_OneLoopOfEachKind ==
    \A k \in Kinds :
        Cardinality({g \in Gens : Alive(<<g, k>>)}) <= 1

\* C16: a loop thread that was running when stop_monitoring cleared the
\* flag exits at its next test of the flag, that is no later than its next
\* wake-up.
C16_StoppedLoopExitsAtNextTest ==
    [][\A t \in LoopIds :
          /\ loops[t].told
          /\ loops[t].pc = "test"
          /\ loops'[t] # loops[t]
          => loops'[t].pc = "exited"]_vars

\* C17: while the flag is cleared (stop_monitoring has returned, no start
\* since) no step of a loop hands an event to the transport.
C17_NoLoopEventAfterStop ==
    ~is_running => \A m \in sent : m.cause # "loop"

\* C18: what handle_connect emits for a connecting session goes to that
\* session and to no other.
C18_SnapshotsToConnectingOnly ==
    \A m \in sent : m.cause = "connect" => m.to = m.origin

C22_RecordedEntriesPushed ==
    [][/\ ev'.name = "stream_logs"
       /\ ev'.job_id \in DOMAIN files
       /\ files[ev'.job_id].logs # <<>>
       => \A s \in rooms[ev'.job_id] :
             \E m \in sent' :
                /\ m.event = "deployment_logs"
                /\ m.to = s
                /\ m.origin = ev'.job_id]_vars

\* C23: a stream that is started pushes log lines (event new_log) to the
\* members of the job's room, whatever is_running is.
C23_StreamPushesWhateverTheFlag ==
    [][ev'.name = "stream_logs" =>
          \A s \in rooms[ev'.job_id] :
             \E m \in sent' :
                /\ m.event = "new_log"
                /\ m.to = s
                /\ m.origin = ev'.job_id]_vars

C25_NotificationToAllWhateverTheFlag ==
    [][ev'.name = "notification" =>
          /\ {m.to : m \in sent'} = Sessions'
          /\ \A m \in sent' : m.event = "notification"
          /\ is_running' = is_running
          /\ loops' = loops]_vars

\* A notification was sent to an open session while is_running was unset.
C25_Witness ==
    /\ ev.name = "notification"
    /\ ~is_running
    /\ \E m \in sent : m.event = "notification"

C27_BothDeploymentEventsBroadcast ==
    \A m \in sent :
        m.cause = "loop" /\ m.event = "deployment_metrics"
           => \E n \in sent : n.event = "recent_deployments" /\ n.to = m.to

C29_FaultTouchesNothingElse ==
    [][ev'.name = "tick_fault" =>
          /\ active_connections' = active_connections
          /\ conn' = conn
          /\ rooms' = rooms
          /\ is_running' = is_running
          /\ \A u \in LoopIds \ {ev'.loop} : loops'[u] = loops[u]]_vars

\* get_container_stats raised in an iteration of the container loop while
\* a session was in a room and the thread of another loop was about to
\* emit.
C29_Witness ==
    /\ ev.name = "tick_fault"
    /\ ev.loop[2] = "containers"
    /\ \E j \in JobIds : rooms[j] # {}
    /\ \E u \in LoopIds \ {ev.loop} : loops[u].pc = "emit"

====
